---- MODULE Spec2Model ----
(***************************************************************************)
(* Model of src/src/App.tsx: the engine-time keypad (two time fields and   *)
(* the active-field pointer held in React state) and the pure functions    *)
(* that derive the elapsed time from the two fields.                       *)
(*                                                                         *)
(* A JavaScript string is a sequence of one-character strings, '' is <<>>. *)
(* A JavaScript `number | null` is a sequence of length at most one: null  *)
(* is <<>> and the number n is <<n>>.                                      *)
(***************************************************************************)
EXTENDS Integers, Sequences, FiniteSets, TLC

VARIABLES
    view,          \* useState<View>('menu'), line 94
    times,         \* useState<TimeFields>, lines 95-98
    activeField,   \* useState<ActiveField>('engineStart'), line 99
    handlerField,  \* the activeField captured by the handlers of the last render
    event,         \* history: the user action that led to this state
    prev,          \* history: times and activeField before that action
    script,        \* the keys of an end-to-end scenario (<<>> outside ScenarioSpec)
    pos,           \* how many keys of the script have been pressed
    call,          \* the pure-function call under test (CalcSpec)
    ret            \* its result

vars == <<view, times, activeField, handlerField, event, prev, script, pos, call, ret>>

uiVars == <<view, times, activeField, handlerField, event, prev>>

(***************************************************************************)
(* Bounds.                                                                 *)
(***************************************************************************)
\* How many of the ten digit keys the keypad model presses (the first
\* NumKeys keys of TestKeys).
NumKeys == 2

(***************************************************************************)
(* JavaScript strings and numbers.                                         *)
(***************************************************************************)
DigitChars == <<"0", "1", "2", "3", "4", "5", "6", "7", "8", "9">>

\* \d of the regular expressions
IsDigit(c) == \E i \in 1..Len(DigitChars) : DigitChars[i] = c

Min(a, b) == IF a <= b THEN a ELSE b

\* s.slice(from, to) for from, to >= 0
slice(s, from, to) == SubSeq(s, from + 1, Min(to, Len(s)))

\* s.slice(from)
sliceFrom(s, from) == SubSeq(s, from + 1, Len(s))

\* s.slice(0, -1)
sliceDropLast(s) == SubSeq(s, 1, Len(s) - 1)

\* s.replace(/\D/g, '')
replaceNonDigits(s) == SelectSeq(s, IsDigit)

\* Number(s) for a string of decimal digits (Number('') is 0)
RECURSIVE Number(_)
Number(s) ==
    IF s = <<>> THEN 0
    ELSE 10 * Number(SubSeq(s, 1, Len(s) - 1))
             + (CHOOSE i \in 0..9 : DigitChars[i + 1] = s[Len(s)])

\* n.toString() for an integer n >= 0
RECURSIVE toString(_)
toString(n) ==
    IF n < 10 THEN <<DigitChars[n + 1]>>
    ELSE toString(n \div 10) \o <<DigitChars[(n % 10) + 1]>>

\* s.padStart(len, c)
RECURSIVE padStart(_, _, _)
padStart(s, len, c) == IF Len(s) >= len THEN s ELSE padStart(<<c>> \o s, len, c)

\* value.split(':')
RECURSIVE split(_)
split(s) ==
    IF \A i \in 1..Len(s) : s[i] # ":" THEN <<s>>
    ELSE LET i == CHOOSE k \in 1..Len(s) :
                      s[k] = ":" /\ \A j \in 1..(k - 1) : s[j] # ":"
         IN <<SubSeq(s, 1, i - 1)>> \o split(SubSeq(s, i + 1, Len(s)))

\* x.toFixed(1) of the number tenths / 10.  The code passes hours, hours + 1
\* or hours + steps * 0.1 with hours <= 24 and steps in 1..9: the double
\* nearest to such a sum is within 1e-14 of tenths / 10, far from the
\* rounding points at odd twentieths, so toFixed(1) prints tenths / 10.
toFixed1(tenths) == toString(tenths \div 10) \o <<".">> \o toString(tenths % 10)

null == <<>>

(***************************************************************************)
(* The pure functions, lines 54-91.                                        *)
(***************************************************************************)
formatDigitsWithColonWideHours(digits) ==
    LET trimmed == slice(digits, 0, 4)
    IN IF Len(trimmed) <= 3 THEN trimmed
       ELSE slice(trimmed, 0, 2) \o <<":">> \o sliceFrom(trimmed, 2)

formatDigitsWithColon(digits) ==
    LET trimmed == slice(digits, 0, 4)
    IN IF Len(trimmed) <= 2 THEN trimmed
       ELSE slice(trimmed, 0, 2) \o <<":">> \o sliceFrom(trimmed, 2)

\* /^\d{2}:\d{2}$/.test(value)
matchesClock(value) ==
    /\ Len(value) = 5
    /\ IsDigit(value[1]) /\ IsDigit(value[2])
    /\ value[3] = ":"
    /\ IsDigit(value[4]) /\ IsDigit(value[5])

toMinutesBothOutOfRange(value) ==
    IF ~matchesClock(value) THEN null
    ELSE LET h == Number(split(value)[1])
             m == Number(split(value)[2])
         IN IF h > 23 /\ m > 59 THEN null ELSE <<h * 60 + m>>

\* Number never yields NaN on a part the regular expression accepted, so the
\* two isNaN tests of line 63 are false here.
toMinutes(value) ==
    IF ~matchesClock(value) THEN null
    ELSE LET h == Number(split(value)[1])
             m == Number(split(value)[2])
         IN IF h > 23 \/ m > 59 THEN null ELSE <<h * 60 + m>>

minutesToClock(value) ==
    LET hours == value \div 60
        minutes == value % 60
    IN padStart(toString(hours), 2, "0") \o <<":">> \o padStart(toString(minutes), 2, "0")

minutesToTcDecimalLateFirstTenth(value) ==
    LET hours == value \div 60
        remainder == value % 60
    IN IF remainder <= 3 THEN toFixed1(10 * hours)
       ELSE IF remainder >= 57 THEN toFixed1(10 * (hours + 1))
       ELSE LET steps == ((Min(remainder, 56) - 3) \div 6) + 1
            IN toFixed1(10 * hours + steps)

minutesToTcDecimal(value) ==
    LET hours == value \div 60
        remainder == value % 60
    IN IF remainder <= 2 THEN toFixed1(10 * hours)
       ELSE IF remainder >= 57 THEN toFixed1(10 * (hours + 1))
       ELSE LET steps == ((Min(remainder, 56) - 3) \div 6) + 1
            IN toFixed1(10 * hours + steps)

diffMinutesNoRollover(start, end) ==
    LET startMinutes == toMinutes(start)
        endMinutes == toMinutes(end)
    IN IF startMinutes = null \/ endMinutes = null THEN null
       ELSE <<endMinutes[1] - startMinutes[1]>>

diffMinutes(start, end) ==
    LET startMinutes == toMinutes(start)
        endMinutes == toMinutes(end)
    IN IF startMinutes = null \/ endMinutes = null THEN null
       ELSE LET sameDay == endMinutes[1] - startMinutes[1]
            IN IF sameDay >= 0 THEN <<sameDay>> ELSE <<sameDay + 24 * 60>>

(***************************************************************************)
(* The component App, lines 93-339.                                        *)
(***************************************************************************)
\* const orderedFields, lines 136-139
orderedFields == <<"engineStart", "engineStop">>

\* orderedFields.indexOf(field), 0-based
indexOf(field) == CHOOSE i \in 0..(Len(orderedFields) - 1) : orderedFields[i + 1] = field

\* The digit keys of keypadKeys (line 188), in the order the model admits them.
TestKeys == <<"2", "6", "0", "5", "9", "3", "8", "1", "4", "7">>

PressedKeys == {TestKeys[i] : i \in 1..Min(NumKeys, Len(TestKeys))}

\* line 145: the keystroke is dropped
IsFullOffByOne(onlyDigits) == Len(onlyDigits) > 4

IsFull(onlyDigits) == Len(onlyDigits) >= 4

\* line 150
NextIndexWraps(currentIndex) == (currentIndex + 1) % Len(orderedFields)

NextIndexStays(currentIndex) == currentIndex

NextIndex(currentIndex) == Min(currentIndex + 1, Len(orderedFields) - 1)

\* Every render defines the handlers anew (lines 141-175), so the handlers a
\* click runs are those of the last render and read its activeField.
HandlerClosureOfFirstRender(field) == "engineStart"

HandlerClosure(field) == field

\* The value handleBackspace stores, lines 163-167
BackspaceValueUnstripped(value) == sliceDropLast(value)

BackspaceValue(value) == formatDigitsWithColon(sliceDropLast(replaceNonDigits(value)))

\* What a click leaves behind: the re-render that follows the handler's state
\* updates, and the history of the step.
Rendered(kind, key) ==
    /\ handlerField' = HandlerClosure(activeField')
    /\ event' = [kind |-> kind, key |-> key]
    /\ prev' = [times |-> times, activeField |-> activeField]

\* line 259: the menu card "Elapsed Time"
OpenElapsed ==
    /\ view = "menu"
    /\ view' = "elapsed"
    /\ UNCHANGED <<times, activeField>>
    /\ Rendered("open", "")

\* line 275: "<- Menu"
BackToMenu ==
    /\ view = "elapsed"
    /\ view' = "menu"
    /\ UNCHANGED <<times, activeField>>
    /\ Rendered("menu", "")

\* line 194: a tap on a time chip
SelectField(key) ==
    /\ view = "elapsed"
    /\ activeField' = key
    /\ UNCHANGED <<view, times>>
    /\ Rendered("select", key)

\* lines 141-158
HandleDigit(digit) ==
    /\ view = "elapsed"
    /\ IF handlerField = "null" THEN UNCHANGED <<times, activeField>>
       ELSE LET onlyDigits == replaceNonDigits(times[handlerField])
                nextDigits == onlyDigits \o <<digit>>
                nextValue == formatDigitsWithColon(nextDigits)
            IN IF IsFull(onlyDigits) THEN UNCHANGED <<times, activeField>>
               ELSE /\ times' = [times EXCEPT ![handlerField] = nextValue]
                    /\ activeField' =
                           IF Len(nextDigits) >= 4
                           THEN orderedFields[NextIndex(indexOf(handlerField)) + 1]
                           ELSE activeField
    /\ UNCHANGED view
    /\ Rendered("digit", digit)

\* lines 160-170
HandleBackspace ==
    /\ view = "elapsed"
    /\ IF handlerField = "null" THEN UNCHANGED times
       ELSE times' = [times EXCEPT ![handlerField] = BackspaceValue(times[handlerField])]
    /\ UNCHANGED <<view, activeField>>
    /\ Rendered("back", "")

HandleClearBoth ==
    /\ view = "elapsed"
    /\ IF handlerField = "null" THEN UNCHANGED times
       ELSE times' = [engineStart |-> <<>>, engineStop |-> <<>>]
    /\ UNCHANGED <<view, activeField>>
    /\ Rendered("clear", "")

\* lines 172-175
HandleClear ==
    /\ view = "elapsed"
    /\ IF handlerField = "null" THEN UNCHANGED times
       ELSE times' = [times EXCEPT ![handlerField] = <<>>]
    /\ UNCHANGED <<view, activeField>>
    /\ Rendered("clear", "")

\* lines 129-135: derived on every render
engineElapsed == diffMinutes(times.engineStart, times.engineStop)

totalBlock == engineElapsed

totalBlockTc == IF totalBlock # null THEN minutesToTcDecimal(totalBlock[1]) ELSE null

\* renderField, line 197: the text of a time chip
chipValue(key) == IF times[key] # <<>> THEN times[key] ELSE <<"-", "-", ":", "-", "-">>

\* renderElapsed, lines 205-207
elapsedClockText(minutes) ==
    IF minutes # null THEN minutesToClock(minutes[1]) ELSE <<"-", "-", ":", "-", "-">>

elapsedTcText(minutes) ==
    IF minutes # null THEN minutesToTcDecimal(minutes[1]) ELSE <<"-", "-", ".", "-">>

\* lines 330-331: "Total engine tally"
tallyClockText ==
    IF totalBlock # null THEN minutesToClock(totalBlock[1]) ELSE <<"-", "-", ":", "-", "-">>

tallyTcText == IF totalBlock # null THEN totalBlockTc ELSE <<"-", "-", ".", "-">>

NoCall == [fn |-> "none", value |-> 0, start |-> [h |-> 0, m |-> 0], end |-> [h |-> 0, m |-> 0]]

NoRet == [returned |-> FALSE, number |-> null, string |-> <<>>]

UiInit ==
    /\ view = "menu"
    /\ times = [engineStart |-> <<>>, engineStop |-> <<>>]
    /\ activeField = "engineStart"
    /\ handlerField = HandlerClosure(activeField)
    /\ event = [kind |-> "init", key |-> ""]
    /\ prev = [times |-> times, activeField |-> activeField]

Init ==
    /\ UiInit
    /\ script = <<>>
    /\ pos = 0
    /\ call = NoCall
    /\ ret = NoRet

Next ==
    \/ OpenElapsed /\ UNCHANGED <<script, pos, call, ret>>
    \/ BackToMenu /\ UNCHANGED <<script, pos, call, ret>>
    \/ \E key \in {"engineStart", "engineStop"} :
           SelectField(key) /\ UNCHANGED <<script, pos, call, ret>>
    \/ \E digit \in PressedKeys :
           HandleDigit(digit) /\ UNCHANGED <<script, pos, call, ret>>
    \/ HandleBackspace /\ UNCHANGED <<script, pos, call, ret>>
    \/ HandleClear /\ UNCHANGED <<script, pos, call, ret>>

Spec == Init /\ [][Next]_vars

(***************************************************************************)
(* CalcSpec: the pure functions diffMinutes and minutesToTcDecimal, each   *)
(* called once on an argument drawn by CalcInit.                           *)
(***************************************************************************)
\* The clock string "hh:mm" of two numbers below 100
TwoDigits(n) == <<DigitChars[(n \div 10) + 1], DigitChars[(n % 10) + 1]>>

ClockText(t) == TwoDigits(t.h) \o <<":">> \o TwoDigits(t.m)

\* The hours and minutes diffMinutes is called with: every hour, the first
\* hour out of range, and minutes at both ends of the hour and past it.
DiffHours == 0..24

DiffMinuteSamples == {0, 10, 15, 30, 50, 59, 60}

DiffTimes == [h : DiffHours, m : DiffMinuteSamples]

\* The whole domain of minutesToTcDecimal: the results of diffMinutes
TcDomain == 0..(24 * 60 - 1)

CalcInit ==
    /\ UiInit
    /\ script = <<>>
    /\ pos = 0
    /\ ret = NoRet
    /\ \/ \E value \in TcDomain :
              call = [NoCall EXCEPT !.fn = "minutesToTcDecimal", !.value = value]
       \/ \E start \in DiffTimes, end \in DiffTimes :
              call = [NoCall EXCEPT !.fn = "diffMinutes", !.start = start, !.end = end]

CallTcDecimal ==
    /\ call.fn = "minutesToTcDecimal"
    /\ ~ret.returned
    /\ ret' = [returned |-> TRUE, number |-> null,
               string |-> minutesToTcDecimal(call.value)]
    /\ UNCHANGED <<uiVars, script, pos, call>>

CallDiffMinutes ==
    /\ call.fn = "diffMinutes"
    /\ ~ret.returned
    /\ ret' = [returned |-> TRUE,
               number |-> diffMinutes(ClockText(call.start), ClockText(call.end)),
               string |-> <<>>]
    /\ UNCHANGED <<uiVars, script, pos, call>>

CalcNext == CallTcDecimal \/ CallDiffMinutes

CalcSpec == CalcInit /\ [][CalcNext]_vars

(***************************************************************************)
(* ScenarioSpec: from the state after construction, the view is opened and *)
(* the eight digits of a start and a stop time are pressed, nothing else.  *)
(***************************************************************************)
ScenarioHours == {0, 8, 9, 23}

ScenarioMinuteSamples == {0, 2, 5, 58, 59}

ScenarioTimes == [h : ScenarioHours, m : ScenarioMinuteSamples]

ScenarioKeys(start, end) ==
    TwoDigits(start.h) \o TwoDigits(start.m) \o TwoDigits(end.h) \o TwoDigits(end.m)

ScenarioInit ==
    /\ UiInit
    /\ pos = 0
    /\ ret = NoRet
    /\ \E start \in ScenarioTimes, end \in ScenarioTimes :
           /\ call = [NoCall EXCEPT !.fn = "scenario", !.start = start, !.end = end]
           /\ script = ScenarioKeys(start, end)

ScenarioOpen ==
    /\ OpenElapsed
    /\ UNCHANGED <<script, pos, call, ret>>

ScenarioPress ==
    /\ pos < Len(script)
    /\ HandleDigit(script[pos + 1])
    /\ pos' = pos + 1
    /\ UNCHANGED <<script, call, ret>>

ScenarioNext == ScenarioOpen \/ ScenarioPress

ScenarioSpec == ScenarioInit /\ [][ScenarioNext]_vars

(***************************************************************************)
(* Vocabulary of the properties.                                           *)
(***************************************************************************)
Fields == {"engineStart", "engineStop"}

OtherField(field) == IF field = "engineStart" THEN "engineStop" ELSE "engineStart"

\* The digits a stored value holds, in order
DigitsIn(value) == SelectSeq(value, LAMBDA c : c \in {DigitChars[i] : i \in 1..10})

DigitCount(value) == Len(DigitsIn(value))

DigitValue(c) == CHOOSE n \in 0..9 : DigitChars[n + 1] = c

\* value is its digits with a colon after the second one once a third exists
ColonFormatted(value) ==
    LET d == DigitsIn(value)
    IN CASE Len(d) <= 2 -> value = d
         [] Len(d) = 3 -> value = <<d[1], d[2], ":", d[3]>>
         [] Len(d) = 4 -> value = <<d[1], d[2], ":", d[3], d[4]>>
         [] OTHER -> FALSE

\* value holds four digits that read as a time of day
ValidClockDigits(value) ==
    LET d == DigitsIn(value)
    IN /\ Len(d) = 4
       /\ 10 * DigitValue(d[1]) + DigitValue(d[2]) <= 23
       /\ 10 * DigitValue(d[3]) + DigitValue(d[4]) <= 59

ClockPlaceholder == <<"-", "-", ":", "-", "-">>

TcPlaceholder == <<"-", "-", ".", "-">>

\* The field the last action was aimed at, and its value before the action
Target == prev.activeField

TargetBefore == prev.times[prev.activeField]

\* The tenths of an hour the tech-log rounding gives m minutes
TechLogTenths(m) ==
    LET hours == m \div 60
        remainder == m % 60
    IN IF remainder \in 0..2 THEN 10 * hours
       ELSE IF remainder \in 57..59 THEN 10 * (hours + 1)
       ELSE 10 * hours + (CHOOSE k \in 1..9 : 6 * k - 3 <= remainder /\ remainder <= 6 * k + 2)

\* text is the decimal numeral of tenths / 10 with exactly one fractional digit
IsOneDecimalOf(text, tenths) ==
    /\ Len(text) >= 3
    /\ text[Len(text) - 1] = "."
    /\ \A i \in (1..Len(text)) \ {Len(text) - 1} : IsDigit(text[i])
    /\ (Len(text) > 3 => text[1] # "0")
    /\ 10 * Number(SubSeq(text, 1, Len(text) - 2)) + DigitValue(text[Len(text)]) = tenths

MinuteOfDay(t) == 60 * t.h + t.m

IsTimeOfDay(t) == t.h \in 0..23 /\ t.m \in 0..59

\* The minutes from start to end, end being on the next day when it is earlier
ElapsedOf(start, end) ==
    IF MinuteOfDay(end) - MinuteOfDay(start) >= 0
    THEN MinuteOfDay(end) - MinuteOfDay(start)
    ELSE MinuteOfDay(end) - MinuteOfDay(start) + 1440

(***************************************************************************)
(* The properties.                                                         *)
(***************************************************************************)
\* C1: a digit pressed while the active field holds exactly 3 digits makes
\* that field hold 4 digits and leaves engineStop active, whether the field
\* was engineStart (advance) or engineStop (clamped: no wrap, never none).
C1_FourthDigitAdvances ==
    (event.kind = "digit" /\ DigitCount(TargetBefore) = 3)
        => /\ DigitCount(times[Target]) = 4
           /\ DigitsIn(times[Target]) = DigitsIn(TargetBefore) \o <<event.key>>
           /\ activeField = "engineStop"

C1_Witness ==
    /\ event.kind = "digit"
    /\ DigitCount(TargetBefore) = 3
    /\ Target = "engineStop"
    /\ activeField = "engineStop"
    /\ DigitCount(times.engineStart) = 4

\* C2: a digit pressed while the active field already holds 4 digits changes
\* neither field's value nor the active-field pointer.
C2_FullFieldDropsDigit ==
    (event.kind = "digit" /\ DigitCount(TargetBefore) = 4)
        => /\ times = prev.times
           /\ activeField = prev.activeField

C2_Witness ==
    /\ event.kind = "digit"
    /\ DigitCount(TargetBefore) = 4
    /\ Target = "engineStart"
    /\ activeField = "engineStart"

\* C3, as stated: every stored field value consists of digits 0-9 only, at
\* most 4 of them (no colon is stored).
C3_StoredDigitsOnly ==
    \A f \in Fields :
        /\ Len(times[f]) <= 4
        /\ \A i \in 1..Len(times[f]) : IsDigit(times[f][i])

\* C3, amended: every stored field value holds at most 4 digits 0-9 and is
\* the colon-formatted form of them: nothing but those digits, and a colon
\* after the second digit exactly when a third digit is present.
C3_StoredColonFormatted ==
    \A f \in Fields :
        /\ DigitCount(times[f]) <= 4
        /\ ColonFormatted(times[f])
        /\ (\E i \in 1..Len(times[f]) : times[f][i] = ":") <=> DigitCount(times[f]) >= 3

C3_Witness ==
    /\ event.kind = "back"
    /\ DigitCount(TargetBefore) = 4
    /\ Len(times[Target]) = 4
    /\ times[Target][3] = ":"
    /\ DigitCount(times[OtherField(Target)]) = 4

\* C4: for two valid times of day, diffMinutes returns end - start when that
\* is not negative and end - start + 1440 otherwise: a number in 0..1439,
\* never null, 0 for identical times; 08:30-09:15 is 45, 23:50-00:10 is 20.
C4_DiffMinutes ==
    (call.fn = "diffMinutes" /\ ret.returned
        /\ IsTimeOfDay(call.start) /\ IsTimeOfDay(call.end))
        => /\ ret.number = <<ElapsedOf(call.start, call.end)>>
           /\ ret.number[1] \in 0..1439
           /\ (call.start = call.end => ret.number = <<0>>)
           /\ (call.start = [h |-> 8, m |-> 30] /\ call.end = [h |-> 9, m |-> 15]
                   => ret.number = <<45>>)
           /\ (call.start = [h |-> 23, m |-> 50] /\ call.end = [h |-> 0, m |-> 10]
                   => ret.number = <<20>>)
           /\ (call.start = [h |-> 10, m |-> 0] /\ call.end = [h |-> 10, m |-> 0]
                   => ret.number = <<0>>)

C4_Witness ==
    /\ call.fn = "diffMinutes"
    /\ ret.returned
    /\ call.start = [h |-> 23, m |-> 50]
    /\ call.end = [h |-> 0, m |-> 10]
    /\ ret.number = <<20>>

\* C5: for every m in 0..1439, minutesToTcDecimal(m) is the one-decimal
\* numeral of the tech-log tenths of m: the whole hour for remainders 0-2,
\* the next whole hour for 57-59, and .1 for 3-8, .2 for 9-14, ..., .9 for
\* 51-56.
C5_TcDecimalBuckets ==
    (call.fn = "minutesToTcDecimal" /\ ret.returned)
        => IsOneDecimalOf(ret.string, TechLogTenths(call.value))

C5_Witness ==
    /\ call.fn = "minutesToTcDecimal"
    /\ ret.returned
    /\ call.value = 23 * 60 + 57
    /\ ret.string = <<"2", "4", ".", "0">>

\* C6: the elapsed value is available exactly when both fields hold four
\* digits reading as hours 0-23 and minutes 0-59 (stored as DD:DD); in every
\* other state it is null and every elapsed display shows its placeholder.
C6_ElapsedAvailability ==
    /\ engineElapsed # null
           <=> (ValidClockDigits(times.engineStart) /\ ValidClockDigits(times.engineStop))
    /\ engineElapsed # null
           => /\ matchesClock(times.engineStart) /\ matchesClock(times.engineStop)
              /\ elapsedClockText(totalBlock) # ClockPlaceholder
              /\ elapsedTcText(totalBlock) # TcPlaceholder
    /\ engineElapsed = null
           => /\ elapsedClockText(totalBlock) = ClockPlaceholder
              /\ elapsedTcText(totalBlock) = TcPlaceholder
              /\ tallyClockText = ClockPlaceholder
              /\ tallyTcText = TcPlaceholder

C6_Witness ==
    /\ ValidClockDigits(times.engineStart)
    /\ DigitCount(times.engineStop) = 4
    /\ ~ValidClockDigits(times.engineStop)
    /\ 10 * DigitValue(times.engineStop[1]) + DigitValue(times.engineStop[2]) <= 23
    /\ event.kind = "digit"
    /\ elapsedClockText(totalBlock) = ClockPlaceholder
    /\ elapsedTcText(totalBlock) = TcPlaceholder

\* C7: pressClear empties the active field and leaves the other field's
\* value and the active-field pointer as they were.
C7_ClearFrame ==
    event.kind = "clear"
        => /\ times[Target] = <<>>
           /\ times[OtherField(Target)] = prev.times[OtherField(Target)]
           /\ activeField = prev.activeField

C7_Witness ==
    /\ event.kind = "clear"
    /\ TargetBefore # <<>>
    /\ times[Target] = <<>>
    /\ times[OtherField(Target)] # <<>>

\* C8: pressBackspace replaces the active field's value by the
\* colon-formatted form of its digits without the last one (empty stays
\* empty) and changes neither the active-field pointer nor the other field.
C8_BackspaceFrame ==
    event.kind = "back"
        => /\ DigitsIn(times[Target]) =
                  SubSeq(DigitsIn(TargetBefore), 1, DigitCount(TargetBefore) - 1)
           /\ ColonFormatted(times[Target])
           /\ (TargetBefore = <<>> => times[Target] = <<>>)
           /\ activeField = prev.activeField
           /\ times[OtherField(Target)] = prev.times[OtherField(Target)]

C8_Witness ==
    /\ event.kind = "back"
    /\ DigitCount(TargetBefore) = 4
    /\ DigitCount(times[Target]) = 3
    /\ Target = "engineStart"
    /\ activeField = "engineStart"

\* C9: the handlers a press runs read the active-field pointer as all earlier
\* actions left it; a digit, backspace or clear press changes no field but
\* the one active before the press, other actions change no field, and only
\* a field selection or a digit press moves the pointer.
C9_NoStalePointer ==
    /\ handlerField = activeField
    /\ \A f \in Fields :
           times[f] # prev.times[f]
               => event.kind \in {"digit", "back", "clear"} /\ f = Target
    /\ activeField # prev.activeField => event.kind \in {"select", "digit"}
    /\ (event.kind = "digit" /\ DigitCount(TargetBefore) < 4)
           => DigitsIn(times[Target]) = DigitsIn(TargetBefore) \o <<event.key>>

C9_Witness ==
    /\ event.kind = "digit"
    /\ Target = "engineStop"
    /\ prev.times.engineStop = <<>>
    /\ DigitCount(prev.times.engineStart) = 4
    /\ DigitCount(times.engineStop) = 1
    /\ times.engineStart = prev.times.engineStart

\* C10: once the eight digits of a valid start and a valid stop time have
\* been pressed from the initial state, engineStart and engineStop hold the
\* two times as HH:MM and the elapsed minutes, clock string and tc decimal
\* shown are those of the pair; 08:02/09:05 gives 63, 01:03, 1.1 and
\* 23:58/00:02 gives 4, 00:04, 0.1.
C10_EndToEnd ==
    (call.fn = "scenario" /\ pos = 8)
        => LET elapsed == ElapsedOf(call.start, call.end)
           IN /\ times.engineStart = ClockText(call.start)
              /\ times.engineStop = ClockText(call.end)
              /\ engineElapsed = <<elapsed>>
              /\ elapsedClockText(totalBlock)
                     = ClockText([h |-> elapsed \div 60, m |-> elapsed % 60])
              /\ IsOneDecimalOf(elapsedTcText(totalBlock), TechLogTenths(elapsed))
              /\ tallyClockText = elapsedClockText(totalBlock)
              /\ tallyTcText = elapsedTcText(totalBlock)
              /\ (script = <<"0", "8", "0", "2", "0", "9", "0", "5">>
                      => /\ times.engineStart = <<"0", "8", ":", "0", "2">>
                         /\ times.engineStop = <<"0", "9", ":", "0", "5">>
                         /\ engineElapsed = <<63>>
                         /\ elapsedClockText(totalBlock) = <<"0", "1", ":", "0", "3">>
                         /\ elapsedTcText(totalBlock) = <<"1", ".", "1">>)
              /\ (script = <<"2", "3", "5", "8", "0", "0", "0", "2">>
                      => /\ engineElapsed = <<4>>
                         /\ elapsedClockText(totalBlock) = <<"0", "0", ":", "0", "4">>
                         /\ elapsedTcText(totalBlock) = <<"0", ".", "1">>)

C10_Witness ==
    /\ call.fn = "scenario"
    /\ pos = 8
    /\ script = <<"2", "3", "5", "8", "0", "0", "0", "2">>
    /\ engineElapsed = <<4>>
    /\ event.kind = "digit"

====
